---- MODULE Spec2Model ----
(***************************************************************************)
(* Ingestion and answering pipeline of WorkStream Compass AI               *)
(* (backend/app/rag/pipeline.py and the helpers it calls).                 *)
(*                                                                         *)
(* The corpus directory, the manifest file, the vector index and the       *)
(* ingestion coroutines are the state.  A coroutine is cut at its awaits:  *)
(* what runs between two awaits is one action.                             *)
(***************************************************************************)
EXTENDS Integers, Sequences, FiniteSets, TLC

VARIABLES
    fs,        \* the corpus directory: file name -> directory entry
    disk,      \* the manifest file .compass_index.json: file name -> entry
    index,     \* the Qdrant collection: point id (chunk_id) -> payload
    run,       \* the ingestion coroutines: run id -> frame of refresh_notes / ingest_files
    lastDone,  \* history: what the run that has just ended did and returned
    hist,      \* history: the last ended run in brief, while the contents stay as they were
    nruns,     \* history: runs started so far (also the logical clock of utcnow)
    edits,     \* history: changes made to the corpus directory so far
    cache,     \* the Redis store: key -> JSON value, for the entries not expired
    call,      \* the query-path coroutine: frame of generate_answer or of one stage
    ended,     \* history: what the query-path call that has just ended did and gave
    ncalls     \* history: query-path calls started and cache expiries so far

ingestVars == <<fs, disk, index, run, lastDone, hist, nruns, edits>>
queryVars == <<cache, call, ended, ncalls>>
vars == <<fs, disk, index, run, lastDone, hist, nruns, edits, cache, call, ended, ncalls>>

----------------------------------------------------------------------------
(* Bounds of the model *)

MaxRuns == 3
MaxEdits == 2
MaxPaths == 2
MaxCalls == 3

----------------------------------------------------------------------------
(* The corpus directory *)

\* File names that may appear directly under notes_dir.
Names == {"a.md", "A.md", "b.txt", "n.exe"}

\* Names that may also be created as a subdirectory.
DirNames == {"b.txt"}

\* File contents: a sequence of paragraphs.  "#" is a byte sequence that is
\* not valid UTF-8, "_" a paragraph of whitespace only.
Contents == {<<"#">>, <<"_">>, <<"r">>, <<"p", "q">>}

NoFile == [kind |-> "absent", bytes |-> <<>>, mtime |-> 0]
DirEntry == [kind |-> "dir", bytes |-> <<>>, mtime |-> 0]
File(b, m) == [kind |-> "file", bytes |-> b, mtime |-> m]

IsFile(fsys, name) == fsys[name].kind = "file"
Exists(fsys, name) == fsys[name].kind # "absent"
Present(fsys) == {n \in Names : Exists(fsys, n)}

\* Path.suffix.lower()
Suffix(name) ==
    CASE name = "a.md" -> ".md"
      [] name = "A.md" -> ".md"
      [] name = "b.txt" -> ".txt"
      [] name = "n.exe" -> ".exe"

\* str(file_path.resolve()).lower(): the directory part is the same for all.
LowerPath(name) ==
    CASE name = "A.md" -> "a.md"
      [] OTHER -> name

\* Settings.allowed_exts, split on commas, stripped and lowercased.
AllowedExts == {".pdf", ".docx", ".xlsx", ".csv", ".md", ".txt", ".log"}

----------------------------------------------------------------------------
(* utils/hashing.py *)

HashText(value) == <<"blake2b", value>>

\* A hash_file that would digest the file's metadata with its bytes.
HashFileWithMtime(fsys, name) == <<"blake2b", fsys[name].bytes, fsys[name].mtime>>

HashFile(fsys, name) == <<"blake2b", fsys[name].bytes>>

\* RagPipeline._document_id
DocumentId(name) == HashText(LowerPath(name))

----------------------------------------------------------------------------
(* ingest/loaders.py *)

NoText == [ok |-> FALSE, text |-> <<>>]

\* read_text(encoding='utf-8', errors='ignore') drops the undecodable bytes.
ReadText(bytes) == SelectSeq(bytes, LAMBDA b : b # "#")

\* load_document: None for a missing path, for an unsupported suffix and
\* for a read that raises (a directory); the text for .md, .txt and .log.
LoadDocument(fsys, name) ==
    IF ~Exists(fsys, name) THEN NoText
    ELSE IF Suffix(name) \in {".md", ".txt", ".log"}
         THEN IF IsFile(fsys, name)
              THEN [ok |-> TRUE, text |-> ReadText(fsys[name].bytes)]
              ELSE NoText
         ELSE NoText

\* "not raw_text": None or the empty string.
Falsy(raw) == ~raw.ok \/ raw.text = <<>>

----------------------------------------------------------------------------
(* ingest/chunking.py *)

\* RecursiveCharacterTextSplitter.split_text at paragraph granularity: one
\* chunk per paragraph, whitespace-only pieces are stripped away.
SplitText(raw_text) == SelectSeq(raw_text, LAMBDA p : p # "_")

ChunkId(document_id, idx) == <<document_id, "chunk", idx>>

\* A _format_chunks that would count the chunks from 1.
FormatChunksFromOne(document_id, filename, chunks) ==
    [k \in 1..Len(chunks) |->
        [chunk_id |-> ChunkId(document_id, k),
         content |-> chunks[k],
         metadata |-> [chunk_id |-> ChunkId(document_id, k),
                       document_id |-> document_id,
                       filename |-> filename,
                       chunk_index |-> k,
                       chunk_total |-> Len(chunks),
                       chunk_strategy |-> "recursive"]]]

FormatChunks(document_id, filename, chunks) ==
    [k \in 1..Len(chunks) |->
        [chunk_id |-> ChunkId(document_id, k - 1),
         content |-> chunks[k],
         metadata |-> [chunk_id |-> ChunkId(document_id, k - 1),
                       document_id |-> document_id,
                       filename |-> filename,
                       chunk_index |-> k - 1,
                       chunk_total |-> Len(chunks),
                       chunk_strategy |-> "recursive"]]]

\* chunk_text as the pipeline calls it: no source_extension, no strategy.
ChunkText(document_id, filename, raw_text) ==
    FormatChunks(document_id, filename, SplitText(raw_text))

----------------------------------------------------------------------------
(* ingest/indexing.py *)

EmptyManifest == [n \in {} |-> 0]

HasEntry(manifest, filename) == filename \in DOMAIN manifest

UpdateManifestEntry(manifest, filename, document_id, file_hash, total_chunks, size_bytes, now) ==
    [n \in (DOMAIN manifest) \cup {filename} |->
        IF n = filename
        THEN [document_id |-> document_id,
              hash |-> file_hash,
              size_bytes |-> size_bytes,
              total_chunks |-> total_chunks,
              last_ingested_at |-> now]
        ELSE manifest[n]]

----------------------------------------------------------------------------
(* The vector index *)

EmptyIndex == [id \in {} |-> 0]

\* A _delete_existing_chunks that would delete nothing.
DeleteNothing(idx, document_id) == idx

\* qdrant_client.delete with the filter document_id = X
DeleteExistingChunks(idx, document_id) ==
    [id \in {i \in DOMAIN idx : idx[i].document_id # document_id} |-> idx[id]]

\* The points of _upsert_chunks: id = chunk_id, payload = metadata | content.
PointIds(chunks) == {chunks[k].chunk_id : k \in 1..Len(chunks)}

PointPayload(chunks, id) ==
    LET k == CHOOSE j \in 1..Len(chunks) : chunks[j].chunk_id = id
    IN [chunk_id |-> chunks[k].metadata.chunk_id,
        document_id |-> chunks[k].metadata.document_id,
        filename |-> chunks[k].metadata.filename,
        chunk_index |-> chunks[k].metadata.chunk_index,
        chunk_total |-> chunks[k].metadata.chunk_total,
        content |-> chunks[k].content]

\* qdrant_client.upsert: a point replaces the point of the same id.
UpsertChunks(idx, chunks) ==
    [id \in (DOMAIN idx) \cup PointIds(chunks) |->
        IF id \in PointIds(chunks) THEN PointPayload(chunks, id) ELSE idx[id]]

\* The ids of the points that carry a document_id.
DocPoints(idx, document_id) == {i \in DOMAIN idx : idx[i].document_id = document_id}

----------------------------------------------------------------------------
(* History records *)

NoSummary == [scanned_files |-> 0, ingested_chunks |-> 0, skipped_files |-> 0]

\* The run that ended last, in brief: how it ended, what it was asked, the
\* chunk total it counted, the files it upserted, and the files whose
\* modification time changed since.  No file content changed since it ended.
NoPred ==
    [outcome |-> "none", kind |-> "none", refresh_force |-> FALSE,
     ingested_chunks |-> 0, upserted |-> {}, touched |-> {}]

\* What an ended run leaves behind: how it ended, what it was asked, the
\* summary it returned, the calls it made in order, the manifest and the
\* directory it started from, its plan, and the run before it.
NoResult ==
    [outcome |-> "none", kind |-> "none", refresh_force |-> FALSE,
     summary |-> NoSummary, log |-> <<>>, before |-> EmptyManifest,
     plan |-> <<>>, corpus |-> [n \in Names |-> NoFile],
     index0 |-> [id \in {} |-> 0], pred |-> NoPred]

Ev(op, name) == [op |-> op, name |-> name]

\* The files for which a run made the call op, from its log.
Did(log, op) == {log[k].name : k \in {j \in 1..Len(log) : log[j].op = op}}

----------------------------------------------------------------------------
(* rag/pipeline.py: the ingestion coroutines *)

Runs == {1, 2}

IdleRun ==
    [pc |-> "idle", kind |-> "none", refresh_force |-> FALSE, force |-> FALSE,
     manifest |-> EmptyManifest, before |-> EmptyManifest,
     plan |-> <<>>, i |-> 1, raw_text |-> <<>>, chunk_records |-> <<>>,
     scanned_files |-> 0, ingested_chunks |-> 0, skipped_files |-> 0,
     log |-> <<>>, clock |-> 0,
     corpus |-> [n \in Names |-> NoFile], index0 |-> EmptyIndex, pred |-> NoPred]

\* The frame on entry to _ingest_plan: manifest loaded, plan built.
NewRun(kind, refresh_force, force, manifest, plan, clock, fsys, idx, pred) ==
    [pc |-> "loop", kind |-> kind, refresh_force |-> refresh_force, force |-> force,
     manifest |-> manifest, before |-> manifest,
     plan |-> plan, i |-> 1, raw_text |-> <<>>, chunk_records |-> <<>>,
     scanned_files |-> Len(plan), ingested_chunks |-> 0, skipped_files |-> 0,
     log |-> <<Ev("load_manifest", "")>>, clock |-> clock,
     corpus |-> fsys, index0 |-> idx, pred |-> pred]

\* All orders in which a set can be listed (iterdir gives no order).
Orders(S) ==
    {s \in [1..Cardinality(S) -> S] : \A a, b \in 1..Cardinality(S) : s[a] = s[b] => a = b}

\* A _build_ingest_plan that would not look at the extension.
PlannedFilesAnySuffix(fsys, manifest, force) ==
    {n \in Names :
        /\ IsFile(fsys, n)
        /\ ~(~force /\ HasEntry(manifest, n) /\ manifest[n].hash = HashFile(fsys, n))}

\* _build_ingest_plan: the files the loop appends to the plan.
PlannedFiles(fsys, manifest, force) ==
    {n \in Names :
        /\ IsFile(fsys, n)
        /\ Suffix(n) \in AllowedExts
        /\ ~(~force /\ HasEntry(manifest, n) /\ manifest[n].hash = HashFile(fsys, n))}

\* _build_ingest_plan: the plans it can return, one per directory order.
BuildIngestPlan(fsys, manifest, force) ==
    {[k \in 1..Len(o) |-> <<o[k], HashFile(fsys, o[k])>>] :
        o \in Orders(PlannedFiles(fsys, manifest, force))}

\* ingest_files: the plan for the given paths, the missing ones left out.
IngestFilesPlan(fsys, file_paths) ==
    LET kept == SelectSeq(file_paths, LAMBDA n : Exists(fsys, n))
    IN [k \in 1..Len(kept) |-> <<kept[k], HashFile(fsys, kept[k])>>]

\* A skip that would leave skipped_files as it is.
SkipUncounted(rr, op, name, counted) ==
    [rr EXCEPT !.i = @ + 1,
               !.log = Append(@, Ev(op, name))]

\* A skip that would leave the loop (break) instead of going on (continue).
SkipAndStop(rr, op, name, counted) ==
    [rr EXCEPT !.i = Len(rr.plan) + 1,
               !.skipped_files = IF counted THEN @ + 1 ELSE @,
               !.log = Append(@, Ev(op, name))]

\* continue: on to the next file of the plan, counted as skipped or not.
Skip(rr, op, name, counted) ==
    [rr EXCEPT !.i = @ + 1,
               !.skipped_files = IF counted THEN @ + 1 ELSE @,
               !.log = Append(@, Ev(op, name))]

\* _ingest_plan from the top of the for loop to its next await (the vector
\* delete of a file whose text was loaded) or to the return of the caller,
\* which saves the manifest first.
RECURSIVE IngestLoop(_, _)
IngestLoop(rr, fsys) ==
    IF rr.i > Len(rr.plan)
    THEN [rr EXCEPT !.pc = "return", !.log = Append(@, Ev("save_manifest", ""))]
    ELSE LET name == rr.plan[rr.i][1]
             file_hash == rr.plan[rr.i][2]
             raw_text == LoadDocument(fsys, name)
         IN IF Suffix(name) \notin AllowedExts
            THEN IngestLoop(Skip(rr, "skip_extension", name, TRUE), fsys)
            ELSE IF ~rr.force /\ HasEntry(rr.manifest, name)
                              /\ rr.manifest[name].hash = file_hash
            THEN IngestLoop(Skip(rr, "skip_hash", name, FALSE), fsys)
            ELSE IF Falsy(raw_text)
            THEN IngestLoop(Skip(rr, "skip_load", name, TRUE), fsys)
            ELSE [rr EXCEPT !.pc = "delete", !.raw_text = raw_text.text]

Summary(rr) ==
    [scanned_files |-> rr.scanned_files,
     ingested_chunks |-> rr.ingested_chunks,
     skipped_files |-> rr.skipped_files]

Result(rr, outcome) ==
    [outcome |-> outcome, kind |-> rr.kind, refresh_force |-> rr.refresh_force,
     summary |-> Summary(rr), log |-> rr.log, before |-> rr.before,
     plan |-> rr.plan, corpus |-> rr.corpus, index0 |-> rr.index0, pred |-> rr.pred]

Brief(rr, outcome) ==
    [outcome |-> outcome, kind |-> rr.kind, refresh_force |-> rr.refresh_force,
     ingested_chunks |-> rr.ingested_chunks, upserted |-> Did(rr.log, "upsert"),
     touched |-> {}]

\* An _ingest_plan that would save the manifest after every file.
ResumeSavingEachFile(r, rr) ==
    IF rr.pc = "return"
    THEN /\ disk' = rr.manifest
         /\ lastDone' = Result(rr, "returned")
         /\ hist' = Brief(rr, "returned")
         /\ run' = [run EXCEPT ![r] = IdleRun]
    ELSE /\ run' = [run EXCEPT ![r] = rr]
         /\ lastDone' = NoResult
         /\ disk' = rr.manifest
         /\ UNCHANGED hist

\* The coroutine is left at its next await, or it has returned: then
\* save_manifest has written the manifest file and the summary is returned.
Resume(r, rr) ==
    IF rr.pc = "return"
    THEN /\ disk' = rr.manifest
         /\ lastDone' = Result(rr, "returned")
         /\ hist' = Brief(rr, "returned")
         /\ run' = [run EXCEPT ![r] = IdleRun]
    ELSE /\ run' = [run EXCEPT ![r] = rr]
         /\ lastDone' = NoResult
         /\ UNCHANGED <<disk, hist>>

\* The coroutine ends with an exception: nothing is saved.
Abort(r, rr) ==
    /\ run' = [run EXCEPT ![r] = IdleRun]
    /\ lastDone' = [NoResult EXCEPT !.outcome = "aborted"]
    /\ hist' = Brief(rr, "aborted")
    /\ UNCHANGED disk

\* refresh_notes(force) up to its first await.  force reaches
\* _build_ingest_plan only: _ingest_plan runs with its default, force=False.
RefreshNotes(r, force) ==
    /\ run[r].pc = "idle"
    /\ nruns < MaxRuns
    /\ nruns' = nruns + 1
    /\ \E plan \in BuildIngestPlan(fs, disk, force) :
          Resume(r, IngestLoop(NewRun("refresh", force, FALSE, disk, plan,
                                      nruns + 1, fs, index, hist), fs))
    /\ UNCHANGED <<fs, index, edits>>

\* An ingest_files that would call _ingest_plan without force=True.
IngestFilesUnforced(r, file_paths) ==
    /\ run[r].pc = "idle"
    /\ nruns < MaxRuns
    /\ nruns' = nruns + 1
    /\ LET rr == NewRun("ingest", FALSE, FALSE, disk, IngestFilesPlan(fs, file_paths),
                        nruns + 1, fs, index, hist)
       IN IF \E k \in 1..Len(file_paths) : fs[file_paths[k]].kind = "dir"
          THEN Abort(r, rr)
          ELSE Resume(r, IngestLoop(rr, fs))
    /\ UNCHANGED <<fs, index, edits>>

\* ingest_files(file_paths) up to its first await; hash_file raises on a
\* directory.
IngestFiles(r, file_paths) ==
    /\ run[r].pc = "idle"
    /\ nruns < MaxRuns
    /\ nruns' = nruns + 1
    /\ LET rr == NewRun("ingest", FALSE, TRUE, disk, IngestFilesPlan(fs, file_paths),
                        nruns + 1, fs, index, hist)
       IN IF \E k \in 1..Len(file_paths) : fs[file_paths[k]].kind = "dir"
          THEN Abort(r, rr)
          ELSE Resume(r, IngestLoop(rr, fs))
    /\ UNCHANGED <<fs, index, edits>>

\* _delete_existing_chunks has returned; chunk_text; then either the file
\* is skipped for having no chunks, or the embedding request is awaited.
DeleteDone(r) ==
    /\ run[r].pc = "delete"
    /\ LET rr == run[r]
           name == rr.plan[rr.i][1]
           document_id == DocumentId(name)
           chunk_records == ChunkText(document_id, name, rr.raw_text)
           deleted == [rr EXCEPT !.log = Append(@, Ev("delete", name))]
       IN /\ index' = DeleteExistingChunks(index, document_id)
          /\ IF chunk_records = <<>>
             THEN Resume(r, IngestLoop(Skip(deleted, "skip_no_chunks", name, TRUE), fs))
             ELSE Resume(r, [deleted EXCEPT !.pc = "embed",
                                            !.chunk_records = chunk_records])
    /\ UNCHANGED <<fs, nruns, edits>>

\* _upsert_chunks: aembed_documents has returned, the upsert is awaited.
EmbedDone(r) ==
    /\ run[r].pc = "embed"
    /\ run' = [run EXCEPT ![r].pc = "upsert",
                          ![r].log = Append(@, Ev("embed", run[r].plan[run[r].i][1]))]
    /\ lastDone' = NoResult
    /\ UNCHANGED <<fs, disk, index, hist, nruns, edits>>

\* The manifest after update_manifest_entry for the file just upserted.
UpdatedManifest(rr, fsys) ==
    LET name == rr.plan[rr.i][1]
    IN UpdateManifestEntry(rr.manifest, name, DocumentId(name), rr.plan[rr.i][2],
                           Len(rr.chunk_records), Len(fsys[name].bytes), rr.clock)

\* The upsert has returned; update_manifest_entry (stat raises when the
\* file is gone); then on with the loop.
UpsertDone(r) ==
    /\ run[r].pc = "upsert"
    /\ LET rr == run[r]
           name == rr.plan[rr.i][1]
           upserted == [rr EXCEPT !.log = Append(@, Ev("upsert", name))]
           updated == [upserted EXCEPT
                          !.manifest = UpdatedManifest(rr, fs),
                          !.ingested_chunks = @ + Len(rr.chunk_records),
                          !.i = @ + 1,
                          !.log = Append(@, Ev("update_manifest_entry", name))]
       IN /\ index' = UpsertChunks(index, rr.chunk_records)
          /\ IF Exists(fs, name)
             THEN Resume(r, IngestLoop(updated, fs))
             ELSE Abort(r, upserted)
    /\ UNCHANGED <<fs, nruns, edits>>

\* The process dies, or an awaited call raises, while the run is suspended.
Crash(r) ==
    /\ run[r].pc # "idle"
    /\ Abort(r, run[r])
    /\ UNCHANGED <<fs, index, nruns, edits>>

----------------------------------------------------------------------------
(* The environment: the corpus directory changes *)

Quiescent == \A r \in Runs : run[r].pc = "idle"

\* A file is created or its content replaced.
WriteFile(name, bytes) ==
    /\ edits < MaxEdits
    /\ fs[name].kind # "dir"
    /\ fs[name].bytes # bytes \/ fs[name].kind = "absent"
    /\ fs' = [fs EXCEPT ![name] = File(bytes, 0)]
    /\ edits' = edits + 1
    /\ lastDone' = NoResult
    /\ hist' = NoPred
    /\ UNCHANGED <<disk, index, run, nruns>>

\* Only the modification time or the permissions of a file change.
TouchFile(name) ==
    /\ edits < MaxEdits
    /\ fs[name].kind = "file"
    /\ fs' = [fs EXCEPT ![name].mtime = 1 - @]
    /\ edits' = edits + 1
    /\ lastDone' = NoResult
    /\ hist' = IF hist.outcome = "none" THEN hist
               ELSE [hist EXCEPT !.touched = @ \cup {name}]
    /\ UNCHANGED <<disk, index, run, nruns>>

RemoveFile(name) ==
    /\ edits < MaxEdits
    /\ Exists(fs, name)
    /\ fs' = [fs EXCEPT ![name] = NoFile]
    /\ edits' = edits + 1
    /\ lastDone' = NoResult
    /\ hist' = NoPred
    /\ UNCHANGED <<disk, index, run, nruns>>

MakeDir(name) ==
    /\ edits < MaxEdits
    /\ ~Exists(fs, name)
    /\ fs' = [fs EXCEPT ![name] = DirEntry]
    /\ edits' = edits + 1
    /\ lastDone' = NoResult
    /\ hist' = NoPred
    /\ UNCHANGED <<disk, index, run, nruns>>

----------------------------------------------------------------------------
(* Strings of the query path: sequences of characters.  "::" stands for the
   two colons of the key separator, "nl" for a line break. *)

IsSpace(c) == c \in {" ", "nl"}

\* str.lower() on one character.
Lower(c) == IF c = "Q" THEN "q" ELSE c

LowerStr(str) == [k \in 1..Len(str) |-> Lower(str[k])]

\* str.strip(): leading and trailing whitespace removed.
RECURSIVE LStrip(_)
LStrip(str) ==
    IF str # <<>> /\ IsSpace(Head(str)) THEN LStrip(Tail(str)) ELSE str

RECURSIVE RStrip(_)
RStrip(str) ==
    IF str # <<>> /\ IsSpace(str[Len(str)])
    THEN RStrip(SubSeq(str, 1, Len(str) - 1))
    ELSE str

Strip(str) == RStrip(LStrip(str))

\* WHITESPACE_RE.sub(' ', str): every run of whitespace becomes one space.
RECURSIVE CollapseSpaces(_)
CollapseSpaces(str) ==
    IF str = <<>> THEN <<>>
    ELSE IF IsSpace(Head(str))
         THEN <<" ">> \o CollapseSpaces(LStrip(str))
         ELSE <<Head(str)>> \o CollapseSpaces(Tail(str))

\* utils/normalize.py
NormalizeText(value) ==
    IF value = <<>> THEN <<>> ELSE CollapseSpaces(LowerStr(Strip(value)))

\* len(content.split()): the number of whitespace-delimited words.
RECURSIVE WordCount(_)
WordCount(str) ==
    LET rest == LStrip(str)
    IN IF rest = <<>> THEN 0
       ELSE IF Len(rest) > 1 /\ ~IsSpace(rest[2])
            THEN WordCount(Tail(rest))
            ELSE 1 + WordCount(Tail(rest))

\* str(top_k) for the values of top_k the model uses.
StrOfInt(n) == <<ToString(n)>>

----------------------------------------------------------------------------
(* rag/cache.py *)

\* '::'.join(values)
RECURSIVE Join(_)
Join(values) ==
    IF values = <<>> THEN <<>>
    ELSE IF Len(values) = 1 THEN values[1]
    ELSE values[1] \o <<"::">> \o Join(Tail(values))

HashInputs(values) == HashText(Join(values))

RewriteKey(query) == <<"rewrite:", HashInputs(<<query>>)>>

RetrieveKey(query, top_k) == <<"retrieve:", HashInputs(<<query, StrOfInt(top_k)>>)>>

\* The compress key under the prefix of the rewrite key.
CompressKeyRewritePrefix(query, chunk_ids) ==
    <<"rewrite:", HashInputs(<<query>> \o chunk_ids)>>

CompressKey(query, chunk_ids) == <<"compress:", HashInputs(<<query>> \o chunk_ids)>>

AnswerKey(query, model, mode) == <<"answer:", HashInputs(<<query, model, mode>>)>>

\* json.dumps and json.loads of the values the pipeline stores.
JsonDumps(value) == [json |-> value]
JsonLoads(text) == text.json

EmptyCache == [k \in {} |-> 0]

NoValue == [found |-> FALSE, value |-> <<>>]

\* cache_get: None when the key is absent (or expired), else the value.
CacheGet(store, key) ==
    IF key \in DOMAIN store
    THEN [found |-> TRUE, value |-> JsonLoads(store[key])]
    ELSE NoValue

\* cache_set: redis.set(key, json.dumps(value), ex=ttl_seconds)
CacheSet(store, key, value) ==
    [k \in (DOMAIN store) \cup {key} |->
        IF k = key THEN JsonDumps(value) ELSE store[k]]

----------------------------------------------------------------------------
(* rag/pipeline.py: the query path *)

\* Settings.openai_chat_model
ChatModel == <<"m">>

\* The raw queries, the modes and the filters of the requests.
Queries == {<<>>, <<" ", "nl">>, <<"q">>, <<" ", "Q", "nl">>, <<"q", "nl", " ", "k">>}
Modes == {<<"answer">>, <<"verbatim">>}
Filters == {"none", "some"}

NoMetadata == [keys |-> {}, mode |-> <<>>, model |-> <<>>, retrieved_chunks |-> 0]

NoPayload == [answer |-> "", sources |-> <<>>, quotes |-> <<>>, metadata |-> NoMetadata]

\* _empty_answer
EmptyAnswer(message, mode) ==
    [answer |-> message, sources |-> <<>>, quotes |-> <<>>,
     metadata |-> [keys |-> {"mode", "model"}, mode |-> mode, model |-> ChatModel,
                   retrieved_chunks |-> 0]]

\* A query-path frame: the arguments, the locals and the calls made so far.
IdleCall ==
    [pc |-> "idle", kind |-> "none", query |-> <<>>, mode |-> <<>>, filters |-> "none",
     normalized_query |-> <<>>, rewritten_query |-> <<>>,
     chunks |-> <<>>, chunk_ids |-> <<>>, trimmed |-> <<>>, max_tokens |-> 0,
     payload |-> NoPayload, log |-> <<>>, cache0 |-> EmptyCache]

\* What an ended call leaves behind: returned or raised, its arguments, the
\* value it returned (a payload, a string or a chunk list), the calls it
\* made, and the cache as it was when the call began.
NoEnded ==
    [outcome |-> "none", error |-> "", kind |-> "none",
     query |-> <<>>, mode |-> <<>>, filters |-> "none",
     normalized_query |-> <<>>, rewritten_query |-> <<>>,
     chunks |-> <<>>, chunk_ids |-> <<>>, trimmed |-> <<>>, max_tokens |-> 0,
     payload |-> NoPayload, log |-> <<>>, cache0 |-> EmptyCache]

Ended(fr, outcome, error) ==
    [outcome |-> outcome, error |-> error, kind |-> fr.kind,
     query |-> fr.query, mode |-> fr.mode, filters |-> fr.filters,
     normalized_query |-> fr.normalized_query, rewritten_query |-> fr.rewritten_query,
     chunks |-> fr.chunks, chunk_ids |-> fr.chunk_ids, trimmed |-> fr.trimmed,
     max_tokens |-> fr.max_tokens,
     payload |-> fr.payload, log |-> fr.log, cache0 |-> fr.cache0]

Logged(fr, op, key) == [fr EXCEPT !.log = Append(@, Ev(op, key))]

\* The call returns to its caller.
Return(fr) ==
    /\ call' = IdleCall
    /\ ended' = Ended(fr, "returned", "")

\* The call ends with an exception.
Raise(fr, error) ==
    /\ call' = IdleCall
    /\ ended' = Ended(fr, "raised", error)

\* The call is suspended at an await.
Await(fr, pc) ==
    /\ call' = [fr EXCEPT !.pc = pc]
    /\ ended' = NoEnded

\* _retrieve_chunks up to its first statement that can suspend or raise:
\* self.cache.get_retrieval(query) is a call of get_retrieval(query, top_k)
\* with one argument short, which raises TypeError before anything is
\* looked up.
RetrieveChunks(fr) ==
    Raise(Logged(fr, "Retrieve", <<>>), "TypeError")

\* After _rewrite_query has its value: generate_answer goes on to
\* _retrieve_chunks; a call of the stage alone returns.
Rewritten(fr, rewrite) ==
    LET done == [fr EXCEPT !.rewritten_query = rewrite]
    IN IF fr.kind = "generate_answer" THEN RetrieveChunks(done) ELSE Return(done)

\* generate_answer(query, mode, filters) up to its first await.
GenerateAnswer(query, mode, filters) ==
    /\ call.pc = "idle"
    /\ ncalls < MaxCalls
    /\ ncalls' = ncalls + 1
    /\ LET normalized_query == NormalizeText(query)
           fr == [IdleCall EXCEPT !.kind = "generate_answer", !.query = query,
                                  !.mode = mode, !.filters = filters,
                                  !.normalized_query = normalized_query,
                                  !.log = <<Ev("Normalize", <<>>)>>,
                                  !.cache0 = cache]
       IN IF normalized_query = <<>>
          THEN Return([fr EXCEPT !.payload =
                          EmptyAnswer("Query is empty. Please provide a question.", mode)])
          ELSE Await(Logged(fr, "Rewrite", <<>>), "get_rewrite")
    /\ UNCHANGED cache

\* _rewrite_query: cache.get_rewrite has returned.
GetRewriteDone ==
    /\ call.pc = "get_rewrite"
    /\ LET key == RewriteKey(call.normalized_query)
           cached == CacheGet(cache, key)
           fr == Logged(call, "cache_get", key)
       IN IF cached.found /\ cached.value # <<>>
          THEN Rewritten(fr, cached.value)
          ELSE Await(fr, "set_rewrite")
    /\ UNCHANGED <<cache, ncalls>>

\* A _rewrite_query whose rewrite is not the query it was given.
SetRewriteDoneRewording ==
    /\ call.pc = "set_rewrite"
    /\ LET key == RewriteKey(call.normalized_query)
           rewrite == call.normalized_query \o <<" ", "k">>
       IN /\ cache' = CacheSet(cache, key, rewrite)
          /\ Rewritten(Logged(call, "cache_set", key), rewrite)
    /\ UNCHANGED ncalls

\* _rewrite_query: cache.set_rewrite has returned.
SetRewriteDone ==
    /\ call.pc = "set_rewrite"
    /\ LET key == RewriteKey(call.normalized_query)
           rewrite == call.normalized_query
       IN /\ cache' = CacheSet(cache, key, rewrite)
          /\ Rewritten(Logged(call, "cache_set", key), rewrite)
    /\ UNCHANGED ncalls

\* An optional string: None, or a string (which may be empty).
None == [none |-> TRUE, str |-> <<>>]
Some(str) == [none |-> FALSE, str |-> str]

\* "x or ...": a string that is neither None nor empty.
TruthyStr(opt) == ~opt.none /\ opt.str # <<>>

\* A retrieved chunk: chunk_id, content (the key may be absent), metadata.
Chunk(chunk_id, has_content, content, meta_chunk_id, filename) ==
    [chunk_id |-> chunk_id, has_content |-> has_content, content |-> content,
     metadata |-> [chunk_id |-> meta_chunk_id, document_id |-> "d", filename |-> filename]]

\* The chunks the stages are called with: two words, one word, the id of
\* the first with other text and other metadata, a content of None with no
\* id, the content key absent with the id in the metadata only.
Chunks ==
    {Chunk(Some(<<"c1">>), TRUE, Some(<<"w", " ", "w">>), Some(<<"c1">>), "f"),
     Chunk(Some(<<"c2">>), TRUE, Some(<<" ", "w", "nl">>), Some(<<"c2">>), "f"),
     Chunk(Some(<<"c1">>), TRUE, Some(<<"w">>), None, "g"),
     Chunk(None, TRUE, None, None, "f"),
     Chunk(None, FALSE, None, Some(<<"c3">>), "f")}

\* chunk.get('chunk_id') or chunk.get('metadata', {}).get('chunk_id') or 'chunk'
ChunkIdOf(chunk) ==
    IF TruthyStr(chunk.chunk_id) THEN chunk.chunk_id.str
    ELSE IF TruthyStr(chunk.metadata.chunk_id) THEN chunk.metadata.chunk_id.str
    ELSE <<"chunk">>

\* The chunk_ids list that _compress_chunks builds.
ChunkIds(chunks) == [k \in 1..Len(chunks) |-> ChunkIdOf(chunks[k])]

\* The loop with continue in place of break: a chunk that would cross the
\* budget is passed over and later chunks that fit are taken.
RECURSIVE CompressLoopSkipping(_, _, _, _, _)
CompressLoopSkipping(chunks, max_tokens, k, trimmed, running_tokens) ==
    IF k > Len(chunks) THEN [error |-> "", trimmed |-> trimmed]
    ELSE IF chunks[k].has_content /\ chunks[k].content.none
    THEN [error |-> "AttributeError", trimmed |-> <<>>]
    ELSE LET content == IF chunks[k].has_content THEN chunks[k].content.str ELSE <<>>
             token_estimate == WordCount(content)
         IN IF running_tokens + token_estimate > max_tokens
            THEN CompressLoopSkipping(chunks, max_tokens, k + 1, trimmed, running_tokens)
            ELSE CompressLoopSkipping(chunks, max_tokens, k + 1, Append(trimmed, chunks[k]),
                                      running_tokens + token_estimate)

\* The loop with the break after the append: the chunk that crosses the
\* budget is kept.
RECURSIVE CompressLoopKeepingLast(_, _, _, _, _)
CompressLoopKeepingLast(chunks, max_tokens, k, trimmed, running_tokens) ==
    IF k > Len(chunks) THEN [error |-> "", trimmed |-> trimmed]
    ELSE IF chunks[k].has_content /\ chunks[k].content.none
    THEN [error |-> "AttributeError", trimmed |-> <<>>]
    ELSE LET content == IF chunks[k].has_content THEN chunks[k].content.str ELSE <<>>
             token_estimate == WordCount(content)
         IN IF running_tokens + token_estimate > max_tokens
            THEN [error |-> "", trimmed |-> Append(trimmed, chunks[k])]
            ELSE CompressLoopKeepingLast(chunks, max_tokens, k + 1, Append(trimmed, chunks[k]),
                                         running_tokens + token_estimate)

\* rag/compressor.py: the loop of compress_chunks from the k-th chunk on.
\* chunk.get('content', '') is None for a content of None, and None has no
\* split: AttributeError.
RECURSIVE CompressLoop(_, _, _, _, _)
CompressLoop(chunks, max_tokens, k, trimmed, running_tokens) ==
    IF k > Len(chunks) THEN [error |-> "", trimmed |-> trimmed]
    ELSE IF chunks[k].has_content /\ chunks[k].content.none
    THEN [error |-> "AttributeError", trimmed |-> <<>>]
    ELSE LET content == IF chunks[k].has_content THEN chunks[k].content.str ELSE <<>>
             token_estimate == WordCount(content)
         IN IF running_tokens + token_estimate > max_tokens
            THEN [error |-> "", trimmed |-> trimmed]
            ELSE CompressLoop(chunks, max_tokens, k + 1, Append(trimmed, chunks[k]),
                              running_tokens + token_estimate)

\* compress_chunks(chunks, max_tokens)
CompressChunks(chunks, max_tokens) == CompressLoop(chunks, max_tokens, 1, <<>>, 0)

\* Settings.max_context_tokens
MaxContextTokens == 2

\* compress_chunks called on its own.
CallCompressChunks(chunks, max_tokens) ==
    /\ call.pc = "idle"
    /\ ncalls < MaxCalls
    /\ ncalls' = ncalls + 1
    /\ LET fr == [IdleCall EXCEPT !.kind = "compress_chunks", !.chunks = chunks,
                                  !.max_tokens = max_tokens, !.cache0 = cache]
           result == CompressChunks(chunks, max_tokens)
       IN IF result.error # ""
          THEN Raise(fr, result.error)
          ELSE Return([fr EXCEPT !.trimmed = result.trimmed])
    /\ UNCHANGED cache

\* _compress_chunks(query, chunks) up to its first await.
CallCompressStage(query, chunks) ==
    /\ call.pc = "idle"
    /\ ncalls < MaxCalls
    /\ ncalls' = ncalls + 1
    /\ Await([IdleCall EXCEPT !.kind = "compress", !.rewritten_query = query,
                              !.chunks = chunks, !.chunk_ids = ChunkIds(chunks),
                              !.max_tokens = MaxContextTokens,
                              !.log = <<Ev("Compress", <<>>)>>, !.cache0 = cache],
             "get_compress")
    /\ UNCHANGED cache

\* _compress_chunks: cache.get_compress has returned; on a miss (also an
\* empty list that was stored) compress_chunks runs.
GetCompressDone ==
    /\ call.pc = "get_compress"
    /\ LET key == CompressKey(call.rewritten_query, call.chunk_ids)
           cached == CacheGet(cache, key)
           fr == Logged(call, "cache_get", key)
           result == CompressChunks(call.chunks, call.max_tokens)
       IN IF cached.found /\ cached.value # <<>>
          THEN Return([fr EXCEPT !.trimmed = cached.value])
          ELSE IF result.error # ""
          THEN Raise(fr, result.error)
          ELSE Await([fr EXCEPT !.trimmed = result.trimmed], "set_compress")
    /\ UNCHANGED <<cache, ncalls>>

\* _compress_chunks: cache.set_compress has returned.
SetCompressDone ==
    /\ call.pc = "set_compress"
    /\ LET key == CompressKey(call.rewritten_query, call.chunk_ids)
       IN /\ cache' = CacheSet(cache, key, call.trimmed)
          /\ Return(Logged(call, "cache_set", key))
    /\ UNCHANGED ncalls

\* _rewrite_query(normalized_query) called on its own.
CallRewriteStage(normalized_query) ==
    /\ call.pc = "idle"
    /\ ncalls < MaxCalls
    /\ ncalls' = ncalls + 1
    /\ Await([IdleCall EXCEPT !.kind = "rewrite", !.normalized_query = normalized_query,
                              !.log = <<Ev("Rewrite", <<>>)>>, !.cache0 = cache],
             "get_rewrite")
    /\ UNCHANGED cache

\* _retrieve_chunks(query, filters) called on its own.
CallRetrieveStage(query, filters) ==
    /\ call.pc = "idle"
    /\ ncalls < MaxCalls
    /\ ncalls' = ncalls + 1
    /\ RetrieveChunks([IdleCall EXCEPT !.kind = "retrieve", !.rewritten_query = query,
                                       !.filters = filters, !.cache0 = cache])
    /\ UNCHANGED cache

\* cleaned_content[:400]
QuoteLimit == 400

Take(str, n) == SubSeq(str, 1, IF Len(str) < n THEN Len(str) ELSE n)

\* (chunk.get('content') or '').strip()
CleanedContent(chunk) ==
    IF chunk.has_content /\ TruthyStr(chunk.content) THEN Strip(chunk.content.str) ELSE <<>>

\* f'[{chunk_id}] {cleaned_content}'
ContextLine(chunk) == <<"[">> \o ChunkIdOf(chunk) \o <<"]", " ">> \o CleanedContent(chunk)

\* '\n\n'.join(context_lines)
RECURSIVE JoinLines(_)
JoinLines(lines) ==
    IF lines = <<>> THEN <<>>
    ELSE IF Len(lines) = 1 THEN lines[1]
    ELSE lines[1] \o <<"nl", "nl">> \o JoinLines(Tail(lines))

ContextText(context_chunks) ==
    JoinLines([k \in 1..Len(context_chunks) |-> ContextLine(context_chunks[k])])

\* Every chunk of the context, seen before or not.
FirstOfIdKeepingAll(context_chunks) == context_chunks

\* The chunks that are the first of their chunk_id in the context.
FirstOfId(context_chunks) ==
    LET first(k) == \A j \in 1..(k - 1) : ChunkIdOf(context_chunks[j]) # ChunkIdOf(context_chunks[k])
        ks == SelectSeq([k \in 1..Len(context_chunks) |-> k], first)
    IN [i \in 1..Len(ks) |-> context_chunks[ks[i]]]

SourceOf(chunk) ==
    [document_id |-> chunk.metadata.document_id, filename |-> chunk.metadata.filename,
     chunk_id |-> ChunkIdOf(chunk), page |-> "None"]

Sources(context_chunks) ==
    [i \in 1..Len(FirstOfId(context_chunks)) |-> SourceOf(FirstOfId(context_chunks)[i])]

Quotes(context_chunks) ==
    [i \in 1..Len(FirstOfId(context_chunks)) |->
        Take(CleanedContent(FirstOfId(context_chunks)[i]), QuoteLimit)]

ModeHint(mode) ==
    IF mode = <<"verbatim">>
    THEN "Return verbatim snippets with citations referencing [chunk-id]."
    ELSE "Answer succinctly with citations referencing [chunk-id]."

HumanPrompt(original_query, mode, context_chunks) ==
    [hint |-> ModeHint(mode), question |-> original_query,
     context |-> ContextText(context_chunks)]

\* The payload _answer_from_context assembles from the chat response.
AnswerPayload(content, mode, context_chunks) ==
    [answer |-> content, sources |-> Sources(context_chunks),
     quotes |-> Quotes(context_chunks),
     metadata |-> [keys |-> {"mode", "model", "retrieved_chunks"}, mode |-> mode,
                   model |-> ChatModel, retrieved_chunks |-> Len(context_chunks)]]

\* What the chat service may answer.
ChatResponses == {"an answer", ""}

\* _answer_from_context(cache_key_query, original_query, mode,
\* context_chunks) up to its first await.
CallAnswerStage(cache_key_query, original_query, mode, context_chunks) ==
    /\ call.pc = "idle"
    /\ ncalls < MaxCalls
    /\ ncalls' = ncalls + 1
    /\ Await([IdleCall EXCEPT !.kind = "answer", !.rewritten_query = cache_key_query,
                              !.query = original_query, !.mode = mode,
                              !.chunks = context_chunks,
                              !.log = <<Ev("Generate", <<>>)>>, !.cache0 = cache],
             "get_answer")
    /\ UNCHANGED cache

\* _answer_from_context going on as on a miss whatever get_answer returned.
GetAnswerDoneUncached ==
    /\ call.pc = "get_answer"
    /\ LET key == AnswerKey(call.rewritten_query, ChatModel, call.mode)
           fr == Logged(call, "cache_get", key)
       IN IF ContextText(call.chunks) = <<>>
          THEN Return([fr EXCEPT !.payload = EmptyAnswer("Context chunk text unavailable.",
                                                         call.mode)])
          ELSE Await(Logged(fr, "chat", HumanPrompt(call.query, call.mode, call.chunks)),
                     "chat")
    /\ UNCHANGED <<cache, ncalls>>

\* _answer_from_context: cache.get_answer has returned; on a miss the
\* context is put together and, unless it is the empty string, the chat
\* request is sent.
GetAnswerDone ==
    /\ call.pc = "get_answer"
    /\ LET key == AnswerKey(call.rewritten_query, ChatModel, call.mode)
           cached == CacheGet(cache, key)
           fr == Logged(call, "cache_get", key)
       IN IF cached.found
          THEN Return([fr EXCEPT !.payload = cached.value])
          ELSE IF ContextText(call.chunks) = <<>>
          THEN Return([fr EXCEPT !.payload = EmptyAnswer("Context chunk text unavailable.",
                                                         call.mode)])
          ELSE Await(Logged(fr, "chat", HumanPrompt(call.query, call.mode, call.chunks)),
                     "chat")
    /\ UNCHANGED <<cache, ncalls>>

\* _answer_from_context: chat_model.ainvoke has returned.
ChatDone(content) ==
    /\ call.pc = "chat"
    /\ Await([call EXCEPT !.payload = AnswerPayload(content, call.mode, call.chunks)],
             "set_answer")
    /\ UNCHANGED <<cache, ncalls>>

\* _answer_from_context: cache.set_answer has returned.
SetAnswerDone ==
    /\ call.pc = "set_answer"
    /\ LET key == AnswerKey(call.rewritten_query, ChatModel, call.mode)
       IN /\ cache' = CacheSet(cache, key, call.payload)
          /\ Return(Logged(call, "cache_set", key))
    /\ UNCHANGED ncalls

\* The exception a failing awaited call raises: the chat client's at the
\* chat request, the Redis client's at a cache get or set.
FaultOf(pc) == IF pc = "chat" THEN "APIError" ELSE "RedisError"

\* The failure turned into an empty answer that is returned.
FaultSwallowed ==
    /\ call.pc # "idle"
    /\ Return([Logged(call, "fault", <<call.pc>>)
                  EXCEPT !.payload = EmptyAnswer(FaultOf(call.pc), call.mode)])
    /\ UNCHANGED <<cache, ncalls>>

\* The awaited call of the cache store or of the chat service fails: no
\* try/except stands between the await and the caller, so the exception
\* leaves the stage and the request as it is.
Fault ==
    /\ call.pc # "idle"
    /\ Raise(Logged(call, "fault", <<call.pc>>), FaultOf(call.pc))
    /\ UNCHANGED <<cache, ncalls>>

\* An entry of the cache outlives its TTL and is gone.
Expire(key) ==
    /\ call.pc = "idle"
    /\ key \in DOMAIN cache
    /\ ncalls < MaxCalls
    /\ ncalls' = ncalls + 1
    /\ cache' = [k \in (DOMAIN cache) \ {key} |-> cache[k]]
    /\ ended' = NoEnded
    /\ UNCHANGED call

----------------------------------------------------------------------------
(* The specification: one ingestion run at a time, the corpus changing
   between runs *)

SeqRuns == {1}

\* The path lists ingest_files is called with.
PathLists == UNION {Orders(S) : S \in {T \in SUBSET Names : T # {} /\ Cardinality(T) <= MaxPaths}}

Init ==
    /\ fs = [n \in Names |-> NoFile]
    /\ disk = EmptyManifest
    /\ index = EmptyIndex
    /\ run = [r \in Runs |-> IdleRun]
    /\ lastDone = NoResult
    /\ hist = NoPred
    /\ nruns = 0
    /\ edits = 0
    /\ cache = EmptyCache
    /\ call = IdleCall
    /\ ended = NoEnded
    /\ ncalls = 0

Next ==
    \/ \E r \in SeqRuns, force \in BOOLEAN : RefreshNotes(r, force) /\ UNCHANGED queryVars
    \/ \E r \in SeqRuns, file_paths \in PathLists :
          IngestFiles(r, file_paths) /\ UNCHANGED queryVars
    \/ \E r \in SeqRuns : DeleteDone(r) /\ UNCHANGED queryVars
    \/ \E r \in SeqRuns : EmbedDone(r) /\ UNCHANGED queryVars
    \/ \E r \in SeqRuns : UpsertDone(r) /\ UNCHANGED queryVars
    \/ \E r \in SeqRuns : Crash(r) /\ UNCHANGED queryVars
    \/ Quiescent /\ \E n \in Names, b \in Contents : WriteFile(n, b) /\ UNCHANGED queryVars
    \/ Quiescent /\ \E n \in Names : TouchFile(n) /\ UNCHANGED queryVars
    \/ Quiescent /\ \E n \in Names : RemoveFile(n) /\ UNCHANGED queryVars
    \/ Quiescent /\ \E n \in DirNames : MakeDir(n) /\ UNCHANGED queryVars

Spec == Init /\ [][Next]_vars

\* The query path alone: one generate_answer request at a time, cache
\* entries expiring between requests.
AskNext ==
    \/ \E query \in Queries, mode \in Modes, filters \in Filters :
          GenerateAnswer(query, mode, filters) /\ UNCHANGED ingestVars
    \/ GetRewriteDone /\ UNCHANGED ingestVars
    \/ SetRewriteDone /\ UNCHANGED ingestVars
    \/ \E key \in DOMAIN cache : Expire(key) /\ UNCHANGED ingestVars

AskSpec == Init /\ [][AskNext]_vars

MaxStageCalls == 2
MaxChunks == 2
MaxBudget == 3

\* The arguments the stages are called with.
StageQueries == {<<"q">>, <<"k">>}
ChunkLists == UNION {[1..n -> Chunks] : n \in 0..MaxChunks}

\* compress_chunks alone, called with every chunk list and every budget.
CompressorNext ==
    \E chunks \in ChunkLists, max_tokens \in 0..MaxBudget :
       CallCompressChunks(chunks, max_tokens) /\ UNCHANGED ingestVars

CompressorSpec == Init /\ [][CompressorNext]_vars

\* The stages of the query path, each called on its own, one call at a
\* time, cache entries expiring between calls.
StageNext ==
    \/ /\ ncalls < MaxStageCalls
       /\ \E query \in StageQueries : CallRewriteStage(query) /\ UNCHANGED ingestVars
    \/ GetRewriteDone /\ UNCHANGED ingestVars
    \/ SetRewriteDone /\ UNCHANGED ingestVars
    \/ /\ ncalls < MaxStageCalls
       /\ \E query \in StageQueries, filters \in Filters :
             CallRetrieveStage(query, filters) /\ UNCHANGED ingestVars
    \/ /\ ncalls < MaxStageCalls
       /\ \E query \in StageQueries, chunks \in ChunkLists :
             CallCompressStage(query, chunks) /\ UNCHANGED ingestVars
    \/ GetCompressDone /\ UNCHANGED ingestVars
    \/ SetCompressDone /\ UNCHANGED ingestVars
    \/ /\ ncalls < MaxStageCalls
       /\ \E query \in StageQueries, mode \in Modes, chunks \in ChunkLists \ {<<>>} :
             CallAnswerStage(query, query, mode, chunks) /\ UNCHANGED ingestVars
    \/ GetAnswerDone /\ UNCHANGED ingestVars
    \/ \E content \in ChatResponses : ChatDone(content) /\ UNCHANGED ingestVars
    \/ SetAnswerDone /\ UNCHANGED ingestVars
    \/ /\ ncalls < MaxStageCalls
       /\ \E key \in DOMAIN cache : Expire(key) /\ UNCHANGED ingestVars

StageSpec == Init /\ [][StageNext]_vars

\* Requests and stage calls against services that may fail.
FaultNext ==
    \/ /\ ncalls < MaxStageCalls
       /\ \E query \in Queries, mode \in Modes, filters \in Filters :
             GenerateAnswer(query, mode, filters) /\ UNCHANGED ingestVars
    \/ GetRewriteDone /\ UNCHANGED ingestVars
    \/ SetRewriteDone /\ UNCHANGED ingestVars
    \/ /\ ncalls < MaxStageCalls
       /\ \E query \in StageQueries, chunks \in ChunkLists :
             CallCompressStage(query, chunks) /\ UNCHANGED ingestVars
    \/ GetCompressDone /\ UNCHANGED ingestVars
    \/ SetCompressDone /\ UNCHANGED ingestVars
    \/ /\ ncalls < MaxStageCalls
       /\ \E query \in StageQueries, mode \in Modes, chunks \in ChunkLists \ {<<>>} :
             CallAnswerStage(query, query, mode, chunks) /\ UNCHANGED ingestVars
    \/ GetAnswerDone /\ UNCHANGED ingestVars
    \/ \E content \in ChatResponses : ChatDone(content) /\ UNCHANGED ingestVars
    \/ SetAnswerDone /\ UNCHANGED ingestVars
    \/ Fault /\ UNCHANGED ingestVars

FaultSpec == Init /\ [][FaultNext]_vars

\* An ingestion that would drop the cached stage entries.
IngestionInvalidating == cache' = EmptyCache /\ UNCHANGED <<call, ended, ncalls>>

\* refresh_notes, ingest_files and _ingest_plan make no call of self.cache.
IngestionLeaves == UNCHANGED queryVars

\* Ingestion runs and Rewrite calls side by side.
MaxMixedRuns == 1

MixedNext ==
    \/ /\ nruns < MaxMixedRuns
       /\ \E r \in SeqRuns, force \in BOOLEAN : RefreshNotes(r, force) /\ IngestionLeaves
    \/ /\ nruns < MaxMixedRuns
       /\ \E r \in SeqRuns, file_paths \in PathLists :
             IngestFiles(r, file_paths) /\ IngestionLeaves
    \/ \E r \in SeqRuns : DeleteDone(r) /\ IngestionLeaves
    \/ \E r \in SeqRuns : EmbedDone(r) /\ IngestionLeaves
    \/ \E r \in SeqRuns : UpsertDone(r) /\ IngestionLeaves
    \/ \E r \in SeqRuns : Crash(r) /\ IngestionLeaves
    \/ Quiescent /\ \E n \in Names, b \in Contents : WriteFile(n, b) /\ UNCHANGED queryVars
    \/ /\ ncalls < MaxStageCalls
       /\ \E query \in StageQueries : CallRewriteStage(query) /\ UNCHANGED ingestVars
    \/ GetRewriteDone /\ UNCHANGED ingestVars
    \/ SetRewriteDone /\ UNCHANGED ingestVars
    \/ /\ ncalls < MaxStageCalls
       /\ \E key \in DOMAIN cache : Expire(key) /\ UNCHANGED ingestVars

MixedSpec == Init /\ [][MixedNext]_vars

\* Ingestion runs that overlap: the coroutines of two requests on one event
\* loop, each resumed when its awaited call returns, while files of the
\* corpus are written.  Nothing in the pipeline or in the routers holds a
\* lock around a run.
MaxConcRuns == 2

ConcNames == {"a.md", "b.txt"}
ConcContents == {<<"r">>, <<"p", "q">>}
ConcPathLists == {<<"a.md">>, <<"b.txt">>, <<"a.md", "b.txt">>}

ConcNext ==
    \/ /\ nruns < MaxConcRuns
       /\ \E r \in Runs, force \in BOOLEAN : RefreshNotes(r, force) /\ UNCHANGED queryVars
    \/ /\ nruns < MaxConcRuns
       /\ \E r \in Runs, file_paths \in ConcPathLists :
             IngestFiles(r, file_paths) /\ UNCHANGED queryVars
    \/ \E r \in Runs : DeleteDone(r) /\ UNCHANGED queryVars
    \/ \E r \in Runs : EmbedDone(r) /\ UNCHANGED queryVars
    \/ \E r \in Runs : UpsertDone(r) /\ UNCHANGED queryVars
    \/ \E n \in ConcNames, b \in ConcContents : WriteFile(n, b) /\ UNCHANGED queryVars

ConcSpec == Init /\ [][ConcNext]_vars

\* The stages that form a key, called with queries and modes that hold the
\* separator of the key: the query and the mode are strings of the request
\* (models/ask.py), nothing restricts their characters.
KeyQueries == {<<"q">>, <<"q", "::", "c1">>, <<"q", "::", "m", "::", "x">>}
KeyModes == {<<"answer">>, <<"x", "::", "m", "::", "answer">>}
KeyChunks == {chunk \in Chunks : chunk.has_content /\ TruthyStr(chunk.metadata.chunk_id)}
KeyChunkLists == UNION {[1..n -> KeyChunks] : n \in 0..MaxChunks}

KeyNext ==
    \/ /\ ncalls < MaxStageCalls
       /\ \E query \in KeyQueries : CallRewriteStage(query) /\ UNCHANGED ingestVars
    \/ GetRewriteDone /\ UNCHANGED ingestVars
    \/ SetRewriteDone /\ UNCHANGED ingestVars
    \/ /\ ncalls < MaxStageCalls
       /\ \E query \in KeyQueries, chunks \in KeyChunkLists :
             CallCompressStage(query, chunks) /\ UNCHANGED ingestVars
    \/ GetCompressDone /\ UNCHANGED ingestVars
    \/ SetCompressDone /\ UNCHANGED ingestVars
    \/ /\ ncalls < MaxStageCalls
       /\ \E query \in KeyQueries, mode \in KeyModes, chunks \in KeyChunkLists \ {<<>>} :
             CallAnswerStage(query, query, mode, chunks) /\ UNCHANGED ingestVars
    \/ GetAnswerDone /\ UNCHANGED ingestVars
    \/ \E content \in ChatResponses : ChatDone(content) /\ UNCHANGED ingestVars
    \/ SetAnswerDone /\ UNCHANGED ingestVars

KeySpec == Init /\ [][KeyNext]_vars

----------------------------------------------------------------------------
(* Vocabulary of the properties *)

\* The last ended run returned normally and was refresh_notes(force).
ReturnedRefresh(force) ==
    /\ lastDone.outcome = "returned"
    /\ lastDone.kind = "refresh"
    /\ lastDone.refresh_force = force

PlanNames(plan) == {plan[k][1] : k \in 1..Len(plan)}

\* The file is a regular file of the directory with an allowed extension.
Ingestible(fsys, n) == IsFile(fsys, n) /\ Suffix(n) \in AllowedExts

\* The text extraction gives for the file, and the chunks that text gives.
TextOf(fsys, n) == LoadDocument(fsys, n)
ChunksOf(fsys, n) == ChunkText(DocumentId(n), n, TextOf(fsys, n).text)

YieldsChunks(fsys, n) == ~Falsy(TextOf(fsys, n)) /\ ChunksOf(fsys, n) # <<>>
YieldsNoChunks(fsys, n) == ~Falsy(TextOf(fsys, n)) /\ ChunksOf(fsys, n) = <<>>

\* The manifest has no entry for the file, or one with another content hash.
Stale(manifest, fsys, n) ==
    ~HasEntry(manifest, n) \/ manifest[n].hash # HashFile(fsys, n)

SameEntry(m1, m2, n) ==
    /\ HasEntry(m1, n) <=> HasEntry(m2, n)
    /\ HasEntry(m1, n) => m1[n] = m2[n]

\* The points of the index that carry the document_id of the file.
PointsOf(idx, n) == {idx[i] : i \in DocPoints(idx, DocumentId(n))}

\* The points that the chunks of the file's present text make.
FreshPoints(fsys, n) ==
    {PointPayload(ChunksOf(fsys, n), id) : id \in PointIds(ChunksOf(fsys, n))}

Reingested(log, n) ==
    /\ n \in Did(log, "delete")
    /\ n \in Did(log, "upsert")
    /\ n \in Did(log, "update_manifest_entry")

Count(log, op) == Cardinality({k \in 1..Len(log) : log[k].op = op})

Hashes(manifest) == [n \in DOMAIN manifest |-> manifest[n].hash]

----------------------------------------------------------------------------
(* Properties *)

\* C1 Idempotent ingestion: a refresh without force that follows a completed
\* refresh without force, no file content having changed in between, makes
\* no upsert: none while it runs, none when it has returned, and the
\* summary counts no ingested chunk.
C1_IdempotentRefresh ==
    /\ \A r \in Runs :
          (/\ run[r].pc # "idle"
           /\ run[r].kind = "refresh" /\ ~run[r].refresh_force
           /\ run[r].pred.outcome = "returned"
           /\ run[r].pred.kind = "refresh" /\ ~run[r].pred.refresh_force)
          => /\ run[r].pc \notin {"embed", "upsert"}
             /\ Did(run[r].log, "upsert") = {}
    /\ (/\ ReturnedRefresh(FALSE)
        /\ lastDone.pred.outcome = "returned"
        /\ lastDone.pred.kind = "refresh" /\ ~lastDone.pred.refresh_force)
       => /\ Did(lastDone.log, "upsert") = {}
          /\ lastDone.summary.ingested_chunks = 0
          /\ index = lastDone.index0 \/ Did(lastDone.log, "delete") # {}

\* A second refresh without force has returned after a first one that
\* ingested chunks, a file having been touched in between.
C1_Witness ==
    /\ ReturnedRefresh(FALSE)
    /\ lastDone.pred.outcome = "returned"
    /\ lastDone.pred.kind = "refresh" /\ ~lastDone.pred.refresh_force
    /\ lastDone.pred.ingested_chunks > 0
    /\ lastDone.pred.touched # {}
    /\ lastDone.summary.scanned_files = 0

\* C2 Force flag: a returned refresh(force=true) has deleted, upserted and
\* refreshed the entry of every allowed file that yields text and a chunk,
\* whatever its stored hash; a returned refresh without force has refreshed
\* the entry of such a file exactly when it had no entry or another hash.
C2_ForceReingestsAll ==
    /\ ReturnedRefresh(TRUE) =>
          \A n \in Names :
             (Ingestible(lastDone.corpus, n) /\ YieldsChunks(lastDone.corpus, n))
             => Reingested(lastDone.log, n)
    /\ ReturnedRefresh(FALSE) =>
          \A n \in Names :
             (Ingestible(lastDone.corpus, n) /\ YieldsChunks(lastDone.corpus, n))
             => (n \in Did(lastDone.log, "update_manifest_entry")
                 <=> Stale(lastDone.before, lastDone.corpus, n))

\* C3 No stale chunks, the order: in every run, each upsert for a file comes
\* right after the embedding request and the vector delete for that file.
C3_DeleteBeforeUpsert ==
    \A log \in {run[r].log : r \in Runs} \cup {lastDone.log} :
       \A k \in 1..Len(log) :
          log[k].op = "upsert"
          => /\ k > 2
             /\ log[k - 2] = Ev("delete", log[k].name)
             /\ log[k - 1] = Ev("embed", log[k].name)

\* C3 No stale chunks, the result: right after the upsert for a file, the
\* points that carry its document_id are exactly the points of the chunks
\* of the file's present text.
C3_UpsertExact(r) ==
    UpsertDone(r) =>
       LET name == run[r].plan[run[r].i][1]
       IN /\ PointsOf(index', name) = FreshPoints(fs, name)
          /\ DocPoints(index', DocumentId(name)) = PointIds(ChunksOf(fs, name))
          /\ FreshPoints(fs, name) # {}

\* C3 No stale chunks: a single ingestion run deletes before it upserts,
\* and after the upsert the index holds for the document exactly the chunk
\* set of the current text.
C3_NoStaleChunks ==
    /\ []C3_DeleteBeforeUpsert
    /\ [][\A r \in SeqRuns : C3_UpsertExact(r)]_vars

\* A file that had two chunks was ingested again with one chunk, and one
\* point is left for its document.
C3_Witness ==
    /\ lastDone.outcome = "returned"
    /\ \E n \in Did(lastDone.log, "upsert") :
          /\ HasEntry(lastDone.before, n)
          /\ lastDone.before[n].total_chunks = 2
          /\ Cardinality(DocPoints(lastDone.index0, DocumentId(n))) = 2
          /\ Cardinality(DocPoints(index, DocumentId(n))) = 1

\* C4 Change detection: a returned refresh without force has, for every
\* allowed file with a manifest entry, re-ingested it (delete, upsert, entry
\* with the new hash) when its content hash differs from the stored one and
\* the new content yields chunks, and left its entry and the index points
\* of its document as they were when the hash is the stored one.
C4_ChangeDetection ==
    ReturnedRefresh(FALSE) =>
       \A n \in Names :
          (Ingestible(lastDone.corpus, n) /\ HasEntry(lastDone.before, n))
          => /\ (Stale(lastDone.before, lastDone.corpus, n)
                     /\ YieldsChunks(lastDone.corpus, n))
                => /\ Reingested(lastDone.log, n)
                   /\ disk[n].hash = HashFile(lastDone.corpus, n)
             /\ ~Stale(lastDone.before, lastDone.corpus, n)
                => /\ SameEntry(disk, lastDone.before, n)
                   /\ PointsOf(index, n) = PointsOf(lastDone.index0, n)

\* C5 Forced refresh twice: of two consecutive returned refresh(force=true)
\* runs with no file content changed in between, the second reports the
\* ingested_chunks of the first and leaves the manifest hashes as they were.
C5_ForcedTwiceSame ==
    (/\ ReturnedRefresh(TRUE)
     /\ lastDone.pred.outcome = "returned"
     /\ lastDone.pred.kind = "refresh" /\ lastDone.pred.refresh_force)
    => /\ lastDone.summary.ingested_chunks = lastDone.pred.ingested_chunks
       /\ Hashes(disk) = Hashes(lastDone.before)

\* The plan of a refresh, as the rule gives it.
RulePlan(fsys, manifest, force) ==
    {n \in Names : Ingestible(fsys, n) /\ (force \/ Stale(manifest, fsys, n))}

PlanByRule(plan, fsys, manifest, force) ==
    /\ PlanNames(plan) = RulePlan(fsys, manifest, force)
    /\ Len(plan) = Cardinality(PlanNames(plan))
    /\ \A k \in 1..Len(plan) : plan[k][2] = HashFile(fsys, plan[k][1])

\* C6 Plan rule: the plan of a refresh holds, once each, exactly the regular
\* files of the directory with an allowed extension for which force is set,
\* or the manifest has no entry, or the stored hash differs from the
\* content hash; each item carries the content hash.
C6_PlanRule ==
    /\ \A r \in Runs :
          (run[r].pc # "idle" /\ run[r].kind = "refresh")
          => PlanByRule(run[r].plan, run[r].corpus, run[r].before, run[r].refresh_force)
    /\ (lastDone.outcome = "returned" /\ lastDone.kind = "refresh")
       => PlanByRule(lastDone.plan, lastDone.corpus, lastDone.before,
                     lastDone.refresh_force)

\* A refresh without force planned one of two allowed files: the other one
\* has its hash in the manifest.
C6_Witness ==
    /\ ReturnedRefresh(FALSE)
    /\ Len(lastDone.plan) = 1
    /\ \E n \in Names \ PlanNames(lastDone.plan) :
          Ingestible(lastDone.corpus, n) /\ HasEntry(lastDone.before, n)

\* The planned files that a run has to count as skipped: those with an
\* extension that is not allowed, those without text, those without chunks.
CountedSkips(res) ==
    {n \in PlanNames(res.plan) :
        Suffix(n) \notin AllowedExts \/ ~YieldsChunks(res.corpus, n)}

\* The files for which a run logged some step.
GoneThrough(log) == {log[k].name : k \in 1..Len(log)}

\* C7 Zero-chunk result: a planned file whose text gives no chunk is counted
\* once in skipped_files, gets no upsert, and its manifest entry, present or
\* absent, is after the run what it was before.
C7_ZeroChunkSkipped ==
    lastDone.outcome = "returned" =>
       /\ lastDone.summary.skipped_files = Cardinality(CountedSkips(lastDone))
       /\ \A n \in Names :
             (/\ n \in PlanNames(lastDone.plan)
              /\ Suffix(n) \in AllowedExts
              /\ YieldsNoChunks(lastDone.corpus, n))
             => /\ n \in Did(lastDone.log, "skip_no_chunks")
                /\ n \notin Did(lastDone.log, "upsert")
                /\ n \notin Did(lastDone.log, "update_manifest_entry")
                /\ SameEntry(disk, lastDone.before, n)

\* A file with a manifest entry of two chunks came to hold only whitespace
\* and was skipped by the next run.
C7_Witness ==
    /\ lastDone.outcome = "returned"
    /\ \E n \in Names :
          /\ n \in PlanNames(lastDone.plan)
          /\ Suffix(n) \in AllowedExts
          /\ YieldsNoChunks(lastDone.corpus, n)
          /\ HasEntry(lastDone.before, n)
          /\ lastDone.summary.skipped_files = 1

\* C8 Extraction failure: a planned file for which the extraction gives
\* nothing adds one to skipped_files, no vector delete and no upsert is
\* made for it, its manifest entry is unchanged, and every other file of
\* the plan is still gone through.
C8_LoadFailureSkipped ==
    lastDone.outcome = "returned" =>
       /\ lastDone.summary.skipped_files = Count(lastDone.log, "skip_extension")
             + Count(lastDone.log, "skip_load") + Count(lastDone.log, "skip_no_chunks")
       /\ \A n \in Names :
             (/\ n \in PlanNames(lastDone.plan)
              /\ Suffix(n) \in AllowedExts
              /\ Falsy(TextOf(lastDone.corpus, n)))
             => /\ n \in Did(lastDone.log, "skip_load")
                /\ n \notin Did(lastDone.log, "delete")
                /\ n \notin Did(lastDone.log, "upsert")
                /\ SameEntry(disk, lastDone.before, n)
                /\ PlanNames(lastDone.plan) \subseteq GoneThrough(lastDone.log)
                /\ \A m \in PlanNames(lastDone.plan) :
                      (Stale(lastDone.before, lastDone.corpus, m)
                          /\ Ingestible(lastDone.corpus, m)
                          /\ YieldsChunks(lastDone.corpus, m))
                      => Reingested(lastDone.log, m)

\* The first file of a plan could not be read and the second one was
\* ingested.
C8_Witness ==
    /\ lastDone.outcome = "returned"
    /\ Len(lastDone.plan) = 2
    /\ Falsy(TextOf(lastDone.corpus, lastDone.plan[1][1]))
    /\ lastDone.plan[1][1] \in Did(lastDone.log, "skip_load")
    /\ lastDone.plan[2][1] \in Did(lastDone.log, "upsert")
    /\ lastDone.summary.skipped_files = 1

\* C9 Manifest persistence: a run that returned loaded the manifest once,
\* as its first step, and saved it once, as its last step, after every file
\* of the plan; while a run is under way it has saved nothing and the
\* manifest file is the one it loaded.
C9_SaveOnceAtEnd ==
    /\ \A r \in SeqRuns :
          run[r].pc # "idle"
          => /\ Count(run[r].log, "load_manifest") = 1
             /\ Count(run[r].log, "save_manifest") = 0
             /\ disk = run[r].before
    /\ lastDone.outcome = "returned"
       => /\ Count(lastDone.log, "load_manifest") = 1
          /\ Count(lastDone.log, "save_manifest") = 1
          /\ lastDone.log[1].op = "load_manifest"
          /\ lastDone.log[Len(lastDone.log)].op = "save_manifest"
          /\ \A n \in Did(lastDone.log, "update_manifest_entry") :
                HasEntry(disk, n) /\ disk[n].hash = HashFile(lastDone.corpus, n)
          /\ \A n \in Names \ Did(lastDone.log, "update_manifest_entry") :
                SameEntry(disk, lastDone.before, n)

\* A run that ingested two files has returned, and the manifest file holds
\* both entries, neither of which it held before.
C9_Witness ==
    /\ lastDone.outcome = "returned"
    /\ Cardinality(Did(lastDone.log, "update_manifest_entry")) = 2
    /\ \A n \in Did(lastDone.log, "update_manifest_entry") :
          HasEntry(disk, n) /\ ~HasEntry(lastDone.before, n)

\* C10 Self-healing after a crash: when a run has aborted after upserting
\* the chunks of a file whose hash the manifest does not hold, and no
\* content has changed since, the next refresh without force that returns
\* has planned the file, deleted and upserted its chunks, saved its hash,
\* and left the index with exactly the chunks of its content.
C10_SelfHealing ==
    (ReturnedRefresh(FALSE) /\ lastDone.pred.outcome = "aborted")
    => \A n \in lastDone.pred.upserted :
          Stale(lastDone.before, lastDone.corpus, n)
          => /\ n \in PlanNames(lastDone.plan)
             /\ Reingested(lastDone.log, n)
             /\ HasEntry(disk, n) /\ disk[n].hash = HashFile(fs, n)
             /\ PointsOf(index, n) = FreshPoints(fs, n)

\* C11 Targeted ingest is forced: a returned ingest_files has skipped no file
\* for its hash, and every given file that exists, has an allowed extension
\* and yields text and chunks went through delete, upsert and manifest
\* update, its stored hash being the content hash or not.
C11_IngestFilesForced ==
    (lastDone.outcome = "returned" /\ lastDone.kind = "ingest")
    => /\ Did(lastDone.log, "skip_hash") = {}
       /\ \A n \in PlanNames(lastDone.plan) :
             (Ingestible(lastDone.corpus, n) /\ YieldsChunks(lastDone.corpus, n))
             => /\ Reingested(lastDone.log, n)
                /\ HasEntry(disk, n)
                /\ disk[n].last_ingested_at = nruns

\* ingest_files has ingested again a file whose content hash the manifest
\* already held.
C11_Witness ==
    /\ lastDone.outcome = "returned" /\ lastDone.kind = "ingest"
    /\ \E n \in PlanNames(lastDone.plan) :
          /\ HasEntry(lastDone.before, n)
          /\ ~Stale(lastDone.before, lastDone.corpus, n)
          /\ Reingested(lastDone.log, n)
          /\ disk[n].last_ingested_at > lastDone.before[n].last_ingested_at

\* The regular files of the directory whose extension is not allowed.
Disallowed(fsys) == {n \in Names : IsFile(fsys, n) /\ Suffix(n) \notin AllowedExts}

\* C12 Disallowed extensions: a returned refresh has made no delete, no
\* upsert and no manifest entry for a file of the directory whose extension
\* is not allowed, and its summary counts each such file in skipped_files,
\* next to the planned files that gave no text or no chunk.
C12_DisallowedSkippedCounted ==
    (lastDone.outcome = "returned" /\ lastDone.kind = "refresh")
    => /\ \A n \in Disallowed(lastDone.corpus) :
             /\ n \notin Did(lastDone.log, "delete")
             /\ n \notin Did(lastDone.log, "upsert")
             /\ ~HasEntry(disk, n)
       /\ lastDone.summary.skipped_files =
             Cardinality(Disallowed(lastDone.corpus)) + Cardinality(CountedSkips(lastDone))

----------------------------------------------------------------------------
(* Properties of the query path *)

\* Settings.rag_top_k, the k of the similarity search.
RagTopK == 2

StageOrder == <<"Normalize", "Rewrite", "Retrieve", "Compress", "Generate">>

\* The stages a call has started, in order, from its log.
StageMarks(log) ==
    LET marks == SelectSeq(log, LAMBDA e : e.op \in {StageOrder[k] : k \in 1..Len(StageOrder)})
    IN [k \in 1..Len(marks) |-> marks[k].op]

IsPrefix(a, b) == Len(a) <= Len(b) /\ a = SubSeq(b, 1, Len(a))

QueryIsEmpty == "Query is empty. Please provide a question."
NoRelevantContext == "No relevant context found. Try refreshing documents."
ContextLimitReached == "Context limit reached without usable chunks."
ContextUnavailable == "Context chunk text unavailable."

\* The generate_answer request that has just ended, if one has.
EndedRequest == ended.outcome # "none" /\ ended.kind = "generate_answer"

\* The lookups, searches and chat requests of a log.
Lookups(log) == SelectSeq(log, LAMBDA e : e.op \in {"cache_get", "search", "chat"})

C14_RecoverableNeverRaises ==
    EndedRequest =>
       /\ ended.outcome = "returned"
       /\ ended.normalized_query = <<>>
             => ended.payload = EmptyAnswer(QueryIsEmpty, ended.mode)
       /\ (ended.normalized_query # <<>> /\ index = EmptyIndex)
             => ended.payload = EmptyAnswer(NoRelevantContext, ended.mode)

\* C17 Retrieve stage caching: a call that has entered the Retrieve stage
\* and ended has looked up the key of (rewritten query, top_k), and on a
\* miss has made one similarity search and stored its result under that key.
C17_RetrieveCachedByTopK ==
    (ended.outcome # "none" /\ "Retrieve" \in {ended.log[k].op : k \in 1..Len(ended.log)})
    => LET key == RetrieveKey(ended.rewritten_query, RagTopK)
       IN /\ Ev("cache_get", key) \in {ended.log[k] : k \in 1..Len(ended.log)}
          /\ \/ Count(ended.log, "search") = 0
             \/ /\ Count(ended.log, "search") = 1
                /\ Ev("cache_set", key) \in {ended.log[k] : k \in 1..Len(ended.log)}

\* The call of _answer_from_context that has just ended, if one has.
EndedAnswerStage == ended.outcome # "none" /\ ended.kind = "answer"

\* The context chunks of a call carry no text: content absent, None, empty
\* or blank in every one of them.
NoContextText(context_chunks) ==
    \A k \in 1..Len(context_chunks) : CleanedContent(context_chunks[k]) = <<>>

\* C15 Missing context text: the Generate stage, given a non-empty chunk
\* list whose chunks carry no text and finding no cached answer, returns
\* the empty answer 'Context chunk text unavailable.' and sends no chat
\* request.
C15_MissingContextUnavailable ==
    (/\ EndedAnswerStage
     /\ ended.chunks # <<>>
     /\ NoContextText(ended.chunks)
     /\ ~CacheGet(ended.cache0, AnswerKey(ended.rewritten_query, ChatModel, ended.mode)).found)
    => /\ ended.outcome = "returned"
       /\ ended.payload = EmptyAnswer(ContextUnavailable, ended.mode)
       /\ Count(ended.log, "chat") = 0

\* The call of _compress_chunks that has just ended, if one has.
EndedCompressStage == ended.outcome # "none" /\ ended.kind = "compress"

\* The lists that hold the elements of a list in some order.
PermutationsOf(list) ==
    LET n == Len(list)
        onto == {f \in [1..n -> 1..n] : \A i, j \in 1..n : i # j => f[i] # f[j]}
    IN {[k \in 1..n |-> list[f[k]]] : f \in onto}

\* The keys a call has looked up in the cache.
KeysLookedUp(log) == {log[k].name : k \in {i \in 1..Len(log) : log[i].op = "cache_get"}}

\* C18 Compression cache key uses sorted chunk ids: the key the Compress
\* stage looks up for a query and a chunk list is the key of the query
\* with the chunk ids in any other order.
C18_CompressKeyAnyOrder ==
    EndedCompressStage =>
       \A chunk_ids \in PermutationsOf(ended.chunk_ids) :
          KeysLookedUp(ended.log) = {CompressKey(ended.rewritten_query, chunk_ids)}

\* The call of compress_chunks that has just returned, if one has.
ReturnedCompressChunks == ended.outcome = "returned" /\ ended.kind = "compress_chunks"

\* The whitespace-delimited words of a chunk's content.
ChunkWords(chunk) ==
    IF chunk.has_content /\ ~chunk.content.none THEN WordCount(chunk.content.str) ELSE 0

RECURSIVE SumWords(_)
SumWords(chunks) ==
    IF chunks = <<>> THEN 0 ELSE ChunkWords(Head(chunks)) + SumWords(Tail(chunks))

\* C20 Compression budget: the chunks compress_chunks returns hold at most
\* max_tokens words in all, and each of them is an element of the input
\* list as it was given, content included.
C20_CompressionBudget ==
    ReturnedCompressChunks =>
       /\ SumWords(ended.trimmed) <= ended.max_tokens
       /\ \A k \in 1..Len(ended.trimmed) :
             ended.trimmed[k] \in {ended.chunks[j] : j \in 1..Len(ended.chunks)}

\* compress_chunks has returned some of the chunks and left out the rest,
\* the budget being too small for all of them.
C20_Witness ==
    /\ ReturnedCompressChunks
    /\ 0 < Len(ended.trimmed)
    /\ Len(ended.trimmed) < Len(ended.chunks)
    /\ SumWords(ended.chunks) > ended.max_tokens

StageKinds == {"rewrite", "retrieve", "compress", "answer"}

\* The keys a stage can form from the inputs the stages are called with.
StageKeys(kind) ==
    CASE kind = "rewrite" -> {RewriteKey(query) : query \in StageQueries}
      [] kind = "retrieve" -> {RetrieveKey(query, RagTopK) : query \in StageQueries}
      [] kind = "compress" ->
            {CompressKey(query, ChunkIds(chunks)) : query \in StageQueries, chunks \in ChunkLists}
      [] kind = "answer" ->
            {AnswerKey(query, ChatModel, mode) : query \in StageQueries, mode \in Modes}

\* The call of a stage that has just ended, if one has.
EndedStage == ended.outcome # "none" /\ ended.kind \in StageKinds

\* The keys a call has stored under.
KeysStored(log) == {log[k].name : k \in {i \in 1..Len(log) : log[i].op = "cache_set"}}

\* The call found an entry under the key it looked up.
CacheHit == \E key \in KeysLookedUp(ended.log) : CacheGet(ended.cache0, key).found

EndedAnswerKey == AnswerKey(ended.rewritten_query, ChatModel, ended.mode)

\* C21 Generate stage: a call of the Generate stage that misses the answer
\* cache with usable context sends exactly one chat request, builds the
\* payload from the response, stores it under the key of (rewritten query,
\* model, mode) and returns it; a call that hits returns the cached payload
\* and sends no chat request.
C21_GenerateOnceAndCache ==
    (EndedAnswerStage /\ ended.outcome = "returned") =>
       /\ KeysLookedUp(ended.log) = {EndedAnswerKey}
       /\ (~CacheHit /\ ~NoContextText(ended.chunks)) =>
             /\ Count(ended.log, "chat") = 1
             /\ \E content \in ChatResponses :
                   ended.payload = AnswerPayload(content, ended.mode, ended.chunks)
             /\ KeysStored(ended.log) = {EndedAnswerKey}
             /\ CacheGet(cache, EndedAnswerKey) = [found |-> TRUE, value |-> ended.payload]
       /\ CacheHit =>
             /\ Count(ended.log, "chat") = 0
             /\ KeysStored(ended.log) = {}
             /\ ended.payload = CacheGet(ended.cache0, EndedAnswerKey).value
             /\ cache = ended.cache0

\* A Generate call has returned the payload an earlier call had built
\* from a chat response and cached.
C21_Witness ==
    /\ EndedAnswerStage
    /\ ended.outcome = "returned"
    /\ CacheHit
    /\ ended.payload.answer = "an answer"
    /\ ended.payload.sources # <<>>

\* A payload the Generate stage has just built and returned.
BuiltPayload == EndedAnswerStage /\ ended.outcome = "returned" /\ ~CacheHit

\* Where a chunk_id first appears in a context.
FirstIndex(context_chunks, chunk_id) ==
    CHOOSE k \in 1..Len(context_chunks) :
       /\ ChunkIdOf(context_chunks[k]) = chunk_id
       /\ \A j \in 1..(k - 1) : ChunkIdOf(context_chunks[j]) # chunk_id

\* C22 Sources and quotes deduplication: in a payload the Generate stage
\* builds, the sources carry each chunk_id of the context once, in the
\* order in which the ids first appear in the context; there are as many
\* quotes as sources, and quotes[i] is the text (cut at 400 characters) of
\* the chunk that sources[i] describes, the first of its id.
C22_SourcesQuotesDeduplicated ==
    BuiltPayload =>
       LET sources == ended.payload.sources
           quotes == ended.payload.quotes
           context == ended.chunks
           first(i) == FirstIndex(context, sources[i].chunk_id)
       IN /\ \A i, j \in 1..Len(sources) :
                i # j => sources[i].chunk_id # sources[j].chunk_id
          /\ Len(quotes) = Len(sources)
          /\ {sources[i].chunk_id : i \in 1..Len(sources)}
                = {ChunkIdOf(context[k]) : k \in 1..Len(context)}
          /\ \A i, j \in 1..Len(sources) : i < j => first(i) < first(j)
          /\ \A i \in 1..Len(sources) :
                /\ quotes[i] = Take(CleanedContent(context[first(i)]), QuoteLimit)
                /\ sources[i].filename = context[first(i)].metadata.filename

\* A payload has been built from a context in which a chunk_id appears
\* twice, with different text.
C22_Witness ==
    /\ BuiltPayload
    /\ Len(ended.payload.sources) < Len(ended.chunks)
    /\ CleanedContent(ended.chunks[1]) # CleanedContent(ended.chunks[2])

\* The stage in which an await stands.
StageAt(pc) ==
    CASE pc \in {"get_rewrite", "set_rewrite"} -> "Rewrite"
      [] pc \in {"get_compress", "set_compress"} -> "Compress"
      [] pc \in {"get_answer", "chat", "set_answer"} -> "Generate"

\* The awaits at which calls of a log failed.
Faults(log) == SelectSeq(log, LAMBDA e : e.op = "fault")

----------------------------------------------------------------------------
(* Properties of the chunks and of the index *)

\* The runs that hold the result of chunk_text for the file at hand.
Chunking == {r \in Runs : run[r].pc \in {"embed", "upsert"}}

\* The chunk_index values of the points of a document.
IndexesOf(idx, document_id) == {idx[i].chunk_index : i \in DocPoints(idx, document_id)}

\* The run has chunked its file at hand again while the index, when the run
\* began, held the points of the very content the file has.
ChunkedSameAgain(r) ==
    LET name == run[r].plan[run[r].i][1]
    IN /\ r \in Chunking
       /\ PointsOf(run[r].index0, name) = FreshPoints(run[r].corpus, name)

\* C24 Chunk identity and numbering: in a result of chunk_text with n
\* chunks the i-th chunk (from 0) has chunk_index i and chunk_total n, and
\* its chunk_id is made of the document_id and i alone; so the points of
\* the index are numbered, per document, from 0 to chunk_total - 1 under
\* the ids of (document_id, chunk_index), and chunking the same content
\* at the same path again gives the chunk_ids the index already held.
C24_ChunkNumbering ==
    /\ \A r \in Chunking :
          LET rr == run[r]
              n == Len(rr.chunk_records)
              document_id == DocumentId(rr.plan[rr.i][1])
          IN /\ n > 0
             /\ \A k \in 1..n :
                   /\ rr.chunk_records[k].metadata.chunk_index = k - 1
                   /\ rr.chunk_records[k].metadata.chunk_total = n
                   /\ rr.chunk_records[k].chunk_id = <<document_id, "chunk", k - 1>>
                   /\ rr.chunk_records[k].metadata.chunk_id = rr.chunk_records[k].chunk_id
    /\ \A id \in DOMAIN index :
          /\ id = <<index[id].document_id, "chunk", index[id].chunk_index>>
          /\ index[id].chunk_id = id
          /\ IndexesOf(index, index[id].document_id) = 0..(index[id].chunk_total - 1)
    /\ \A r \in Runs :
          ChunkedSameAgain(r) =>
             PointIds(run[r].chunk_records)
                = DocPoints(run[r].index0, DocumentId(run[r].plan[run[r].i][1]))

\* A file of two chunks is being ingested again with its content as it
\* was indexed.
C24_Witness ==
    \E r \in Runs :
       /\ ChunkedSameAgain(r)
       /\ Len(run[r].chunk_records) = 2

\* The ids of the points indexed for a file.
FilePoints(idx, n) == {id \in DOMAIN idx : idx[id].filename = n}

\* A run is at the delete or at the upsert of file n.
Reingesting(n) ==
    \E r \in Runs : run[r].pc \in {"delete", "upsert"} /\ run[r].plan[run[r].i][1] = n

\* The points of file n that a step removes or overwrites.
LostPoints(n) == {id \in FilePoints(index, n) : id \notin DOMAIN index' \/ index'[id] # index[id]}

\* C25 Chunk lifecycle: a step removes or overwrites points indexed for a
\* file only as the delete or the upsert of a run that is ingesting that
\* file again; the ingestion of another file leaves them as they are.
C25_ChunkLifecycle ==
    [][\A n \in Names : LostPoints(n) # {} => Reingesting(n)]_vars

\* The call of _rewrite_query that has just returned, if one has.
ReturnedRewriteStage == ended.outcome = "returned" /\ ended.kind = "rewrite"

\* C26 Rewrite stage is a cached identity: a call of the Rewrite stage
\* returns the normalized query it was given; on a miss it stores the query
\* under the rewrite key of the query, on a hit it stores nothing; and
\* every rewrite entry of the cache holds the query of its key.
C26_RewriteCachedIdentity ==
    /\ ReturnedRewriteStage =>
          LET q == ended.normalized_query
          IN /\ ended.rewritten_query = q
             /\ KeysLookedUp(ended.log) = {RewriteKey(q)}
             /\ ~CacheHit => /\ KeysStored(ended.log) = {RewriteKey(q)}
                             /\ CacheGet(cache, RewriteKey(q)) = [found |-> TRUE, value |-> q]
             /\ CacheHit => KeysStored(ended.log) = {} /\ cache = ended.cache0
    /\ \A q \in StageQueries :
          CacheGet(cache, RewriteKey(q)).found => CacheGet(cache, RewriteKey(q)).value = q

\* A Rewrite call has found the entry an earlier call stored.
C26_Witness ==
    /\ ReturnedRewriteStage
    /\ CacheHit
    /\ ended.rewritten_query # <<>>

\* The chunks of a list before position k.
Prefix(chunks, k) == SubSeq(chunks, 1, k)

\* C27 Compression is a prefix in rank order: compress_chunks returns the
\* longest prefix of its input whose words do not exceed max_tokens: the
\* chunk that would cross the budget and every chunk after it are left
\* out, also a later chunk that would still fit.
C27_LongestPrefix ==
    ReturnedCompressChunks =>
       LET n == Len(ended.trimmed)
       IN /\ n <= Len(ended.chunks)
          /\ ended.trimmed = Prefix(ended.chunks, n)
          /\ SumWords(ended.trimmed) <= ended.max_tokens
          /\ n < Len(ended.chunks)
                => SumWords(Prefix(ended.chunks, n + 1)) > ended.max_tokens

\* compress_chunks has stopped at a chunk too large for the budget and so
\* left out a later chunk that would have fitted.
C27_Witness ==
    /\ ReturnedCompressChunks
    /\ Len(ended.chunks) = 2
    /\ ended.trimmed = <<>>
    /\ ChunkWords(ended.chunks[2]) <= ended.max_tokens

\* C28 Filters are narrowed at the vector index: a generate_answer request
\* that is given filters and misses the retrieval cache makes one
\* similarity search, and that search carries the filters of the request.
C28_FiltersAtIndex ==
    (/\ EndedRequest
     /\ ended.filters = "some"
     /\ Count(ended.log, "Retrieve") = 1
     /\ ~CacheGet(ended.cache0, RetrieveKey(ended.rewritten_query, RagTopK)).found)
    => \E k \in 1..Len(ended.log) :
          ended.log[k].op = "search" /\ ended.log[k].name = ended.filters

\* The calls of the cache store that a log holds.
CacheCalls(log) == {k \in 1..Len(log) : log[k].op \in {"cache_get", "cache_set"}}

\* The step is one of an ingestion run, or of the corpus.
IngestionStep == ingestVars' # ingestVars

\* The step is the store of a query that has recomputed a stage.
QueryStore ==
    /\ call.pc \in {"set_rewrite", "set_compress", "set_answer"}
    /\ \E key \in KeysStored(call'.log) \cup KeysStored(ended'.log) :
          /\ DOMAIN cache' = DOMAIN cache \cup {key}
          /\ \A k \in DOMAIN cache \ {key} : cache'[k] = cache[k]

\* The step is the expiry of one entry.
Expiry ==
    \E key \in DOMAIN cache :
       /\ DOMAIN cache' = DOMAIN cache \ {key}
       /\ \A k \in DOMAIN cache' : cache'[k] = cache[k]

\* C29 Ingestion leaves the stage cache unchanged: no step of refresh_notes
\* or ingest_files changes the cache or anything else of the query path,
\* and no run calls the cache store; the cache changes only when an entry
\* expires or when a query stores what it has computed.
C29_IngestionLeavesCache ==
    [][/\ IngestionStep => queryVars' = queryVars
       /\ \A r \in Runs : CacheCalls(run[r].log) = {}
       /\ CacheCalls(lastDone.log) = {}
       /\ cache' # cache => ~IngestionStep /\ (QueryStore \/ Expiry)]_vars

\* A run stands between its delete and its upsert while the cache holds an
\* entry that a Rewrite call has stored and the call has returned.
C29_Witness ==
    /\ \E r \in Runs : run[r].pc = "upsert" /\ Did(run[r].log, "delete") # {}
    /\ cache # EmptyCache
    /\ call = IdleCall
    /\ ended.outcome = "returned"

\* The manifest entry of a file and the index agree on the number of chunks.
EntryAgrees(manifest, idx, n) ==
    Cardinality(DocPoints(idx, manifest[n].document_id)) = manifest[n].total_chunks

\* C30 Manifest-index agreement after a completed run: when a run of
\* refresh_notes or ingest_files has returned, every entry of the saved
\* manifest gives as total_chunks the number of points the index holds
\* for the entry's document_id.
C30_ManifestIndexAgree ==
    lastDone.outcome = "returned" => \A n \in DOMAIN disk : EntryAgrees(disk, index, n)

----------------------------------------------------------------------------
(* Properties of overlapping ingestion runs *)

\* Run r returns normally in this step: save_manifest has just written.
Returns(r) ==
    /\ run[r].pc # "idle"
    /\ run'[r].pc = "idle"
    /\ lastDone'.outcome = "returned"

\* The entries of the manifest file that were saved while run r was under
\* way: those that are not as run r loaded them.
SavedMeanwhile(r) ==
    {n \in DOMAIN disk : ~HasEntry(run[r].before, n) \/ run[r].before[n] # disk[n]}

\* C31: concurrent ingestion runs do not lose manifest updates.  When a run
\* returns normally, every entry that an overlapping run saved since this
\* run loaded the manifest is still in the saved manifest, with the hash
\* that was ingested: the one the other run saved, or the one this run
\* ingested itself.
C31_NoLostManifestUpdate ==
    [][\A r \in Runs :
          Returns(r) =>
             \A n \in SavedMeanwhile(r) :
                /\ HasEntry(disk', n)
                /\ \/ disk'[n].hash = disk[n].hash
                   \/ n \in Did(lastDone'.log, "upsert")]_vars

\* The points of file n are those of one version of its text: what
\* chunk_text gives for some content of the file, no more and no less.
OneVersion(idx, n) ==
    \/ DocPoints(idx, DocumentId(n)) = {}
    \/ \E b \in Contents :
          LET chunks == ChunkText(DocumentId(n), n, ReadText(b))
          IN /\ DocPoints(idx, DocumentId(n)) = PointIds(chunks)
             /\ \A id \in PointIds(chunks) : idx[id] = PointPayload(chunks, id)

\* C32: concurrent re-ingestion of the same file never mixes versions.
\* Once every run has finished, the points of a document_id all come from
\* one version of the file's text, and none has an ordinal at or beyond
\* the chunk_total of that version.
C32_NoMixedVersions ==
    Quiescent =>
       \A n \in ConcNames :
          /\ OneVersion(index, n)
          /\ \A i, j \in DocPoints(index, DocumentId(n)) :
                /\ index[i].chunk_total = index[j].chunk_total
                /\ index[i].chunk_index < index[j].chunk_total

----------------------------------------------------------------------------
(* Properties of the document identity and of removed files *)

\* The file run r is at: the one its awaited delete or upsert is for.
FileAt(r) == run[r].plan[run[r].i][1]

\* Run r is resumed from its vector delete or from its upsert in this step.
IndexStep(r) ==
    /\ run[r].pc \in {"delete", "upsert"}
    /\ run'[r] # run[r]
    /\ index' # index

\* C33: distinct files have distinct document identities.  When the delete
\* or the upsert for a file changes the index, no other file of the corpus
\* has that file's document_id or one of its chunk_ids, and the points of
\* the other files are afterwards what they were.
C33_DistinctDocuments ==
    [][\A r \in Runs :
          IndexStep(r) =>
             /\ \A m \in Present(fs) \ {FileAt(r)} :
                   /\ DocumentId(m) # DocumentId(FileAt(r))
                   /\ ChunkId(DocumentId(m), 0) # ChunkId(DocumentId(FileAt(r)), 0)
             /\ \A id \in DOMAIN index :
                   index[id].filename # FileAt(r) =>
                      id \in DOMAIN index' /\ index'[id] = index[id]]_vars

\* File n was ingested once and is no longer in the corpus directory: the
\* refresh that ended last found its entry in the manifest and no file.
RemovedBefore(n) ==
    /\ ReturnedRefresh(TRUE) \/ ReturnedRefresh(FALSE)
    /\ HasEntry(lastDone.before, n)
    /\ ~Exists(lastDone.corpus, n)
    /\ ~Exists(fs, n)

\* C34: removed files leave nothing behind.  After a refresh that found a
\* file of the manifest gone from the corpus directory, the saved manifest
\* has no entry for that file name and the index has no point with the
\* file's document_id.
C34_RemovedFilesForgotten ==
    \A n \in Names :
       RemovedBefore(n) =>
          /\ ~HasEntry(disk, n)
          /\ DocPoints(index, DocumentId(n)) = {}

----------------------------------------------------------------------------
(* Properties of the returned sources and of the stage keys *)

\* The chunk_ids a payload cites.
CitedIds(payload) == {payload.sources[k].chunk_id : k \in 1..Len(payload.sources)}

\* The chunk_ids of a context.
ContextIds(context_chunks) == {ChunkIdOf(context_chunks[k]) : k \in 1..Len(context_chunks)}

\* C35: returned sources belong to the context of the request.  A payload
\* the Generate stage returns with sources, built now or taken from the
\* answer cache, cites only chunk_ids of the context the call was given,
\* and its retrieved_chunks is the length of that context.
C35_SourcesOfThisContext ==
    (EndedAnswerStage /\ ended.outcome = "returned" /\ ended.payload.sources # <<>>) =>
       /\ CitedIds(ended.payload) \subseteq ContextIds(ended.chunks)
       /\ ended.payload.metadata.retrieved_chunks = Len(ended.chunks)

\* C36: stage keys separate distinct inputs.  The key a stage call looks
\* up is the key of no other input tuple of the same stage: of no other
\* query for rewrite, of no other pair of query and chunk ids for compress,
\* of no other pair of query and mode (the model being the configured one)
\* for answer, also when the inputs hold the separator.
C36_KeysSeparateInputs ==
    EndedStage =>
       /\ ended.kind = "rewrite" =>
             \A query \in KeyQueries \ {ended.normalized_query} :
                RewriteKey(query) \notin KeysLookedUp(ended.log)
       /\ ended.kind = "compress" =>
             \A query \in KeyQueries, chunks \in KeyChunkLists :
                <<query, ChunkIds(chunks)>> # <<ended.rewritten_query, ended.chunk_ids>> =>
                   CompressKey(query, ChunkIds(chunks)) \notin KeysLookedUp(ended.log)
       /\ ended.kind = "answer" =>
             \A query \in KeyQueries, mode \in KeyModes :
                <<query, mode>> # <<ended.rewritten_query, ended.mode>> =>
                   AnswerKey(query, ChatModel, mode) \notin KeysLookedUp(ended.log)

====
